---------------------------- MODULE Spec2Model ----------------------------
(***************************************************************************)
(* A model of the PID controller of src/PID.py (class PID).                *)
(*                                                                         *)
(* Python floats are modelled as exact rationals <<n, d>> (d > 0, lowest   *)
(* terms); time.time() is modelled as a non-decreasing reading, each read  *)
(* being the previous reading plus an elapsed dt chosen by the environment.*)
(* The history variables record the calls made: they are written by the    *)
(* actions and read only to write the history itself.                      *)
(*   lastOp, args, ret, err   the last call, its arguments, what it        *)
(*                            returned, whether it raised                  *)
(*   effective                whether the last call was an update that     *)
(*                            took the branch of line 125                  *)
(*   before                   for an update: <<lastOp, args, err>> of the  *)
(*                            call made just before it                     *)
(*   flushReq, clearedSince   <<p>> since start_flush_at_pressure(p), None *)
(*                            since stop_flush or restart_flow; whether    *)
(*                            clear was called since the flush started     *)
(*   runBase, runGated,       over a run of consecutive update calls in    *)
(*   runElapsed               which every call after the first came less   *)
(*                            than sample_time after the one before: the   *)
(*                            terms and output the first call left,        *)
(*                            whether a later call was made, and the time  *)
(*                            elapsed since the first                      *)
(***************************************************************************)
EXTENDS Integers, Sequences, FiniteSets, TLC

\* ------------------------------------------------------------- bounds
\* The clock horizon: no clock reading exceeds MaxTime.
MaxTime == 2

\* The value clear() and restart_flow() give windup_guard.
WINDUP_DEFAULT == 1000000

\* The inputs the environment calls the controller with.
\* The gains <<P, I, D>> the controller is constructed with.
Constructed == {<<1, 0, 0>>, <<2, 2, 1>>}
KpVals == {1, 2}
KiVals == {0, 2}
KdVals == {0, 1}
Targets == {0, 1}
Feedbacks == {0, 1}
Windups == {-1, 1}
SampleTimes == {0, 2}
Pressures == {0, 5}
LastOuts == {3, 3000000}
\* The time that elapses between two clock readings.
Elapsed == {0, 1, 2}

\* ------------------------------------------------------------- rationals
Abs(n) == IF n < 0 THEN -n ELSE n

RECURSIVE Gcd(_, _)
Gcd(a, b) == IF b = 0 THEN a ELSE Gcd(b, a % b)

\* The rational n/d (d # 0) in lowest terms with a positive denominator.
Norm(n, d) ==
    LET g == Gcd(Abs(n), Abs(d))
        s == IF d < 0 THEN -1 ELSE 1
    IN  <<(s * n) \div g, (s * d) \div g>>

Rat(n) == <<n, 1>>
Zero == Rat(0)
RAdd(x, y) == Norm(x[1] * y[2] + y[1] * x[2], x[2] * y[2])
RNeg(x) == <<-x[1], x[2]>>
RSub(x, y) == RAdd(x, RNeg(y))
RMul(x, y) == Norm(x[1] * y[1], x[2] * y[2])
RDiv(x, y) == Norm(x[1] * y[2], x[2] * y[1])
RLt(x, y) == x[1] * y[2] < y[1] * x[2]
RLe(x, y) == x[1] * y[2] <= y[1] * x[2]

\* What a call that returns nothing returns, and the empty history value.
None == <<>>

VARIABLES Kp, Ki, Kd, flush, flush_pressure, sample_time, current_time,
          last_time, windup_guard, SetPoint, PTerm, ITerm, DTerm,
          last_error, int_error, output,
          lastOp, args, ret, err, effective, before,
          flushReq, clearedSince, runBase, runGated, runElapsed

fields == <<Kp, Ki, Kd, flush, flush_pressure, sample_time, current_time,
            last_time, windup_guard, SetPoint, PTerm, ITerm, DTerm,
            last_error, int_error, output>>
history == <<lastOp, args, ret, err, effective, before,
             flushReq, clearedSince, runBase, runGated, runElapsed>>
vars == <<fields, history>>

\* ------------------------------------------------------------- helpers
\* time.time(): the previous reading plus the time elapsed since.
Now(dt) == current_time + dt

\* The history of a call other than update and the flush operations.
Called(op, a) ==
    /\ lastOp' = op
    /\ args' = a
    /\ ret' = None
    /\ err' = FALSE
    /\ effective' = FALSE
    /\ before' = None
    /\ runBase' = None
    /\ runGated' = FALSE
    /\ runElapsed' = 0

\* The assignments of clear(), lines 48-63, reading the clock at `now`.
ClearFields(now) ==
    /\ sample_time' = 0
    /\ current_time' = now
    /\ last_time' = now
    /\ windup_guard' = Rat(WINDUP_DEFAULT)
    /\ SetPoint' = Zero
    /\ flush' = FALSE
    /\ PTerm' = Zero
    /\ ITerm' = Zero
    /\ DTerm' = Zero
    /\ last_error' = Zero
    /\ int_error' = Zero
    /\ output' = Zero

\* ------------------------------------------------------------- actions
\* PID(P, I, D): the state after construction, the clock reading 0.
Init ==
    /\ \E g \in Constructed :
          /\ Kp = Rat(g[1])
          /\ Ki = Rat(g[2])
          /\ Kd = Rat(g[3])
    /\ flush = FALSE
    /\ flush_pressure = Zero
    /\ sample_time = 0
    /\ current_time = 0
    /\ last_time = 0
    /\ windup_guard = Rat(WINDUP_DEFAULT)
    /\ SetPoint = Zero
    /\ PTerm = Zero
    /\ ITerm = Zero
    /\ DTerm = Zero
    /\ last_error = Zero
    /\ int_error = Zero
    /\ output = Zero
    /\ lastOp = "init"
    /\ args = None
    /\ ret = None
    /\ err = FALSE
    /\ effective = FALSE
    /\ before = None
    /\ flushReq = None
    /\ clearedSince = FALSE
    /\ runBase = None
    /\ runGated = FALSE
    /\ runElapsed = 0

clear(dt) ==
    /\ Now(dt) <= MaxTime
    /\ ClearFields(Now(dt))
    /\ UNCHANGED <<Kp, Ki, Kd, flush_pressure>>
    /\ Called("clear", None)
    /\ clearedSince' = TRUE
    /\ UNCHANGED flushReq

start_flush_at_pressure(pressure) ==
    /\ flush' = TRUE
    /\ flush_pressure' = Rat(pressure)
    /\ UNCHANGED <<Kp, Ki, Kd, sample_time, current_time, last_time,
                   windup_guard, SetPoint, PTerm, ITerm, DTerm, last_error,
                   int_error, output>>
    /\ Called("start_flush_at_pressure", <<pressure>>)
    /\ flushReq' = <<Rat(pressure)>>
    /\ clearedSince' = FALSE

stop_flush(dt) ==
    /\ Now(dt) <= MaxTime
    /\ flush_pressure' = Zero
    /\ ClearFields(Now(dt))
    /\ UNCHANGED <<Kp, Ki, Kd>>
    /\ Called("stop_flush", None)
    /\ flushReq' = None
    /\ clearedSince' = FALSE

\* clearI as a reset of all three terms.
clearI_AllTerms ==
    /\ PTerm' = Zero
    /\ ITerm' = Zero
    /\ DTerm' = Zero
    /\ UNCHANGED <<Kp, Ki, Kd, flush, flush_pressure, sample_time,
                   current_time, last_time, windup_guard, SetPoint,
                   last_error, int_error, output>>
    /\ Called("clearI", None)
    /\ UNCHANGED <<flushReq, clearedSince>>

clearI ==
    /\ ITerm' = Zero
    /\ UNCHANGED <<Kp, Ki, Kd, flush, flush_pressure, sample_time,
                   current_time, last_time, windup_guard, SetPoint, PTerm,
                   DTerm, last_error, int_error, output>>
    /\ Called("clearI", None)
    /\ UNCHANGED <<flushReq, clearedSince>>

\* Line 79 raises ZeroDivisionError when the new integral gain is 0.
DivisionFails(newI) == newI = 0

\* The seed without the division by the gain.
SeedIntegral_Undivided(lastOutput, newI) == Rat(lastOutput)

\* Line 79: the integral that makes Ki * ITerm the last output.
SeedIntegral(lastOutput, newI) == RDiv(Rat(lastOutput), Rat(newI))

\* restart_flow with the division made first: a failed call changes no field.
restart_flow_DivideFirst(newSetpoint, newI, lastOutput, dt) ==
    /\ Now(dt) <= MaxTime
    /\ IF DivisionFails(newI)
       THEN UNCHANGED fields
       ELSE /\ Ki' = Rat(newI)
            /\ sample_time' = 0
            /\ current_time' = Now(dt)
            /\ last_time' = Now(dt)
            /\ windup_guard' = Rat(WINDUP_DEFAULT)
            /\ flush' = FALSE
            /\ flush_pressure' = Zero
            /\ PTerm' = Zero
            /\ ITerm' = SeedIntegral(lastOutput, newI)
            /\ DTerm' = Zero
            /\ last_error' = Zero
            /\ int_error' = Zero
            /\ output' = Rat(lastOutput)
            /\ SetPoint' = Rat(newSetpoint)
            /\ UNCHANGED <<Kp, Kd>>
    /\ lastOp' = "restart_flow"
    /\ args' = <<newSetpoint, newI, lastOutput>>
    /\ ret' = None
    /\ err' = DivisionFails(newI)
    /\ effective' = FALSE
    /\ before' = None
    /\ runBase' = None
    /\ runGated' = FALSE
    /\ runElapsed' = 0
    /\ flushReq' = None
    /\ clearedSince' = FALSE

restart_flow(newSetpoint, newI, lastOutput, dt) ==
    /\ Now(dt) <= MaxTime
    \* lines 71-78, which run before the division
    /\ Ki' = Rat(newI)
    /\ sample_time' = 0
    /\ current_time' = Now(dt)
    /\ last_time' = Now(dt)
    /\ windup_guard' = Rat(WINDUP_DEFAULT)
    /\ flush' = FALSE
    /\ flush_pressure' = Zero
    /\ PTerm' = Zero
    /\ IF DivisionFails(newI)
       THEN \* the exception leaves lines 79-88 unexecuted
            /\ UNCHANGED <<ITerm, DTerm, last_error, int_error, output,
                           SetPoint>>
       ELSE /\ ITerm' = SeedIntegral(lastOutput, newI)
            /\ DTerm' = Zero
            /\ last_error' = Zero
            /\ int_error' = Zero
            /\ output' = Rat(lastOutput)
            /\ SetPoint' = Rat(newSetpoint)
    /\ UNCHANGED <<Kp, Kd>>
    /\ lastOp' = "restart_flow"
    /\ args' = <<newSetpoint, newI, lastOutput>>
    /\ ret' = None
    /\ err' = DivisionFails(newI)
    /\ effective' = FALSE
    /\ before' = None
    /\ runBase' = None
    /\ runGated' = FALSE
    /\ runElapsed' = 0
    /\ flushReq' = None
    /\ clearedSince' = FALSE

\* The sample-time test dropped.
IsEffective_Always(delta_time, st) == TRUE

\* Line 125: the update is effective when enough time has elapsed.
IsEffective(delta_time, st) == delta_time >= st

\* The guard without its upper bound.
Clamp_NoUpper(i, guard) ==
    IF RLt(i, RNeg(guard)) THEN RNeg(guard) ELSE i

\* Lines 129-132, the windup guard.
Clamp(i, guard) ==
    IF RLt(i, RNeg(guard)) THEN RNeg(guard)
    ELSE IF RLt(guard, i) THEN guard
    ELSE i

\* Lines 134-136.
Derivative(delta_error, delta_time) ==
    IF delta_time > 0 THEN RDiv(delta_error, Rat(delta_time)) ELSE Zero

\* The output with the integral gain left out, and with the derivative
\* gain left out.
PIDOutput_NoKi(p, i, d) == RAdd(RAdd(p, i), RMul(Kd, d))
PIDOutput_NoKd(p, i, d) == RAdd(RAdd(p, RMul(Ki, i)), d)

\* Line 138.
PIDOutput(p, i, d) == RAdd(RAdd(p, RMul(Ki, i)), RMul(Kd, d))

\* The return without the flush override.
UpdateReturn_Computed(out) == out

\* Lines 140-143.
UpdateReturn(out) == IF flush = TRUE THEN flush_pressure ELSE out

\* The time remembered only by an effective update.
RememberedTime_IfEffective(now) ==
    IF IsEffective(now - last_time, sample_time) THEN now ELSE last_time

\* Line 122: the time remembered for the next call.
RememberedTime(now) == now

update(feedback_value, dt) ==
    LET now == Now(dt)
        error == RSub(SetPoint, Rat(feedback_value))
        delta_time == now - last_time
        delta_error == RSub(error, last_error)
        eff == IsEffective(delta_time, sample_time)
        p == IF eff THEN RMul(Kp, error) ELSE PTerm
        i == IF eff
             THEN Clamp(RAdd(ITerm, RMul(error, Rat(delta_time))),
                        windup_guard)
             ELSE ITerm
        d == IF eff THEN Derivative(delta_error, delta_time) ELSE DTerm
        out == IF eff THEN PIDOutput(p, i, d) ELSE output
        cont == lastOp = "update" /\ runBase # None /\ dt < sample_time
    IN  /\ now <= MaxTime
        /\ current_time' = now
        /\ last_time' = RememberedTime(now)
        /\ last_error' = error
        /\ PTerm' = p
        /\ ITerm' = i
        /\ DTerm' = d
        /\ output' = out
        /\ UNCHANGED <<Kp, Ki, Kd, flush, flush_pressure, sample_time,
                       windup_guard, SetPoint, int_error>>
        /\ lastOp' = "update"
        /\ args' = <<feedback_value>>
        /\ ret' = UpdateReturn(out)
        /\ err' = FALSE
        /\ effective' = eff
        /\ before' = <<lastOp, args, err>>
        /\ runBase' = IF cont THEN runBase ELSE <<p, i, d, out>>
        /\ runGated' = cont
        /\ runElapsed' = IF cont THEN runElapsed + dt ELSE 0
        /\ UNCHANGED <<flushReq, clearedSince>>

setTargetValue(targetValue) ==
    /\ SetPoint' = Rat(targetValue)
    /\ UNCHANGED <<Kp, Ki, Kd, flush, flush_pressure, sample_time,
                   current_time, last_time, windup_guard, PTerm, ITerm,
                   DTerm, last_error, int_error, output>>
    /\ Called("setTargetValue", <<targetValue>>)
    /\ UNCHANGED <<flushReq, clearedSince>>

setKp(proportional_gain) ==
    /\ Kp' = Rat(proportional_gain)
    /\ UNCHANGED <<Ki, Kd, flush, flush_pressure, sample_time, current_time,
                   last_time, windup_guard, SetPoint, PTerm, ITerm, DTerm,
                   last_error, int_error, output>>
    /\ Called("setKp", <<proportional_gain>>)
    /\ UNCHANGED <<flushReq, clearedSince>>

setKi(integral_gain) ==
    /\ Ki' = Rat(integral_gain)
    /\ UNCHANGED <<Kp, Kd, flush, flush_pressure, sample_time, current_time,
                   last_time, windup_guard, SetPoint, PTerm, ITerm, DTerm,
                   last_error, int_error, output>>
    /\ Called("setKi", <<integral_gain>>)
    /\ UNCHANGED <<flushReq, clearedSince>>

setKd(derivative_gain) ==
    /\ Kd' = Rat(derivative_gain)
    /\ UNCHANGED <<Kp, Ki, flush, flush_pressure, sample_time, current_time,
                   last_time, windup_guard, SetPoint, PTerm, ITerm, DTerm,
                   last_error, int_error, output>>
    /\ Called("setKd", <<derivative_gain>>)
    /\ UNCHANGED <<flushReq, clearedSince>>

setWindup(windup) ==
    /\ windup_guard' = Rat(windup)
    /\ UNCHANGED <<Kp, Ki, Kd, flush, flush_pressure, sample_time,
                   current_time, last_time, SetPoint, PTerm, ITerm, DTerm,
                   last_error, int_error, output>>
    /\ Called("setWindup", <<windup>>)
    /\ UNCHANGED <<flushReq, clearedSince>>

setSampleTime(st) ==
    /\ sample_time' = st
    /\ UNCHANGED <<Kp, Ki, Kd, flush, flush_pressure, current_time,
                   last_time, windup_guard, SetPoint, PTerm, ITerm, DTerm,
                   last_error, int_error, output>>
    /\ Called("setSampleTime", <<st>>)
    /\ UNCHANGED <<flushReq, clearedSince>>

\* Every operation, called in any order with any of the inputs.  Its state
\* space is the product of all the fields' values; the claims are checked
\* under the four environments below, each calling the operations one
\* group of claims is about.
Next ==
    \/ \E dt \in Elapsed : clear(dt)
    \/ \E p \in Pressures : start_flush_at_pressure(p)
    \/ \E sp \in Targets, newI \in KiVals, lo \in LastOuts, dt \in Elapsed :
          restart_flow(sp, newI, lo, dt)
    \/ \E dt \in Elapsed : stop_flush(dt)
    \/ clearI
    \/ \E fb \in Feedbacks, dt \in Elapsed : update(fb, dt)
    \/ \E t \in Targets : setTargetValue(t)
    \/ \E g \in KpVals : setKp(g)
    \/ \E g \in KiVals : setKi(g)
    \/ \E g \in KdVals : setKd(g)
    \/ \E w \in Windups : setWindup(w)
    \/ \E st \in SampleTimes : setSampleTime(st)

Spec == Init /\ [][Next]_vars

\* The control loop: a caller that tunes the guard and the sample time,
\* feeds samples, and resumes flow with a new target and a seeded integral.
NextControl ==
    \/ \E sp \in Targets, newI \in KiVals, lo \in LastOuts, dt \in Elapsed :
          restart_flow(sp, newI, lo, dt)
    \/ clearI
    \/ \E fb \in Feedbacks, dt \in Elapsed : update(fb, dt)
    \/ \E w \in Windups : setWindup(w)
    \/ \E st \in SampleTimes : setSampleTime(st)

SpecControl == Init /\ [][NextControl]_vars

\* The flush cycle: a caller that starts and ends flushes, resets the
\* controller and feeds samples.
NextFlush ==
    \/ \E dt \in Elapsed : clear(dt)
    \/ \E p \in Pressures : start_flush_at_pressure(p)
    \/ \E sp \in Targets, newI \in KiVals, lo \in LastOuts, dt \in Elapsed :
          restart_flow(sp, newI, lo, dt)
    \/ \E dt \in Elapsed : stop_flush(dt)
    \/ clearI
    \/ \E fb \in Feedbacks, dt \in Elapsed : update(fb, dt)
    \/ \E t \in Targets : setTargetValue(t)

SpecFlush == Init /\ [][NextFlush]_vars

\* Tuning: a caller that retunes the gains, the target and the sample time
\* between samples.
NextTune ==
    \/ \E fb \in Feedbacks, dt \in Elapsed : update(fb, dt)
    \/ \E t \in Targets : setTargetValue(t)
    \/ \E g \in KpVals : setKp(g)
    \/ \E g \in KiVals : setKi(g)
    \/ \E g \in KdVals : setKd(g)
    \/ \E st \in SampleTimes : setSampleTime(st)

SpecTune == Init /\ [][NextTune]_vars

\* Resuming: a caller that flushes, retunes the guard and the sample time,
\* resumes flow and feeds samples.
NextResume ==
    \/ \E p \in Pressures : start_flush_at_pressure(p)
    \/ \E sp \in Targets, newI \in KiVals, lo \in LastOuts, dt \in Elapsed :
          restart_flow(sp, newI, lo, dt)
    \/ \E fb \in Feedbacks, dt \in Elapsed : update(fb, dt)
    \/ \E w \in Windups : setWindup(w)
    \/ \E st \in SampleTimes : setSampleTime(st)

SpecResume == Init /\ [][NextResume]_vars

\* ------------------------------------------------------------- claims
WithinGuard == RLe(RNeg(windup_guard), ITerm) /\ RLe(ITerm, windup_guard)

\* C1 as stated: after every call to update, effective or gated, and for any
\* windup guard installed, -windup_guard <= ITerm <= windup_guard.
C1_AfterAnyUpdate == lastOp = "update" => WithinGuard

\* C1, amended: after every effective update made while windup_guard >= 0,
\* -windup_guard <= ITerm <= windup_guard.
C1_AfterEffectiveUpdate ==
    lastOp = "update" /\ effective /\ RLe(Zero, windup_guard) => WithinGuard

\* An effective update that cut a seeded integral down to the guard.
C1_Witness ==
    /\ lastOp = "update"
    /\ effective
    /\ before[1] = "restart_flow"
    /\ windup_guard = Rat(WINDUP_DEFAULT)
    /\ ITerm = windup_guard

\* C2 as stated: after start_flush_at_pressure(p), every later update
\* returns p until the next stop_flush or restart_flow, whatever setters,
\* clearI or clear are called in between.
C2_UntilStopOrRestart ==
    lastOp = "update" /\ flushReq # None => ret = flushReq[1]

\* C2, amended: after start_flush_at_pressure(p), every later update returns
\* p until the next stop_flush, restart_flow or clear.
C2_UntilStopRestartOrClear ==
    lastOp = "update" /\ flushReq # None /\ ~clearedSince
        => ret = flushReq[1]

\* An effective update during a flush, whose computed output is not the
\* flush pressure it returns.
C2_Witness ==
    /\ lastOp = "update"
    /\ flushReq = <<Rat(5)>>
    /\ ~clearedSince
    /\ effective
    /\ output # Rat(5)
    /\ ret = Rat(5)

\* C3 as stated: clear leaves sample_time = 0, last_time = current_time =
\* now, windup_guard = 1000000, SetPoint = 0, flush = false,
\* flush_pressure = 0 and PTerm = ITerm = DTerm = last_error = output = 0,
\* the gains unchanged.
C3_ClearRestoresBaseline ==
    [][lastOp' = "clear" =>
          /\ sample_time' = 0
          /\ last_time' = current_time'
          /\ current_time' >= current_time
          /\ windup_guard' = Rat(WINDUP_DEFAULT)
          /\ SetPoint' = Zero
          /\ flush' = FALSE
          /\ flush_pressure' = Zero
          /\ PTerm' = Zero
          /\ ITerm' = Zero
          /\ DTerm' = Zero
          /\ last_error' = Zero
          /\ output' = Zero
          /\ UNCHANGED <<Kp, Ki, Kd>>]_vars

\* Whether the integral restart_flow(sp, newI, lastOut) seeds lies within
\* the guard it installs.
SeedWithinGuard(a) ==
    LET q == RDiv(Rat(a[3]), Rat(a[2]))
    IN  RLe(Rat(-WINDUP_DEFAULT), q) /\ RLe(q, Rat(WINDUP_DEFAULT))

\* An update(sp) made right after a successful restart_flow(sp, newI, lastOut).
ResumedAtSetpoint ==
    /\ lastOp = "update"
    /\ before[1] = "restart_flow"
    /\ ~before[3]
    /\ args = <<before[2][1]>>

\* C4 as stated: restart_flow(sp, newI, lastOut) with newI # 0, followed
\* immediately by one update(sp), returns lastOut.
C4_ResumeReturnsLastOutput ==
    ResumedAtSetpoint => ret = Rat(before[2][3])

\* C4, amended: restart_flow(sp, newI, lastOut) with newI # 0 and
\* |lastOut / newI| <= 1000000, followed immediately by one update(sp),
\* returns lastOut.
C4_ResumeWithinGuard ==
    ResumedAtSetpoint /\ SeedWithinGuard(before[2])
        => ret = Rat(before[2][3])

\* update(1) right after restart_flow(1, 2, 3): the seeded integral 3/2
\* is kept and 3 is returned.
C4_Witness ==
    /\ ResumedAtSetpoint
    /\ before[2] = <<1, 2, 3>>
    /\ ITerm = <<3, 2>>
    /\ ret = Rat(3)

\* C5: an update that follows an update, the clock having advanced by less
\* than sample_time between them, leaves PTerm, ITerm, DTerm and output as
\* they were and returns what the first returned, while last_time becomes
\* its clock reading and last_error its error.
C5_GatedUpdate ==
    [][lastOp = "update" /\ lastOp' = "update"
          /\ current_time' - current_time < sample_time
       => /\ UNCHANGED <<PTerm, ITerm, DTerm, output>>
          /\ ret' = ret
          /\ last_time' = current_time'
          /\ last_error' = RSub(SetPoint, Rat(args'[1]))]_vars

\* A gated second update: the error it remembers is not the error PTerm
\* was computed from.
C5_Witness ==
    /\ lastOp = "update"
    /\ before[1] = "update"
    /\ ~effective
    /\ current_time > 0
    /\ last_time = current_time
    /\ last_error # Zero
    /\ PTerm = Zero
    /\ DTerm # Zero

\* PTerm + Ki*ITerm + Kd*DTerm of the stored terms and gains.
WeightedSum == RAdd(RAdd(PTerm, RMul(Ki, ITerm)), RMul(Kd, DTerm))

\* C6 as stated: the stored output equals flush_pressure whenever flush is
\* true; whenever flush is false it equals the PTerm + Ki*ITerm + Kd*DTerm
\* computed by the most recent effective update (stated here in the states
\* that update leaves).
C6_StoredOutput ==
    /\ flush => output = flush_pressure
    /\ ~flush /\ lastOp = "update" /\ effective
          => output = WeightedSum

\* C6, amended: the value update returns equals flush_pressure whenever
\* flush is true and the stored output whenever flush is false; the stored
\* output, flush or not, is the PTerm + Ki*ITerm + Kd*DTerm an effective
\* update computed.
C6_ReturnedOutput ==
    lastOp = "update" =>
        /\ flush => ret = flush_pressure
        /\ ~flush => ret = output
        /\ effective => output = WeightedSum

\* An effective update during a flush: it returns the flush pressure and
\* stores a computed output that differs from it.
C6_Witness ==
    /\ lastOp = "update"
    /\ flush
    /\ effective
    /\ ret = flush_pressure
    /\ output # flush_pressure
    /\ output # Zero
    /\ ITerm # Zero
    /\ DTerm # Zero

\* C7: with Ki = 0, Kd = 0 and no flush, every effective update(feedback)
\* returns Kp * (SetPoint - feedback), whatever ITerm, DTerm and last_error
\* hold.
C7_ProportionalOnly ==
    lastOp = "update" /\ effective /\ Ki = Zero /\ Kd = Zero /\ ~flush
        => ret = RMul(Kp, RSub(SetPoint, Rat(args[1])))

\* An effective proportional-only update under a positive sample time:
\* the integral and the derivative are not 0, and the result is not 0.
C7_Witness ==
    /\ lastOp = "update"
    /\ effective
    /\ sample_time > 0
    /\ Ki = Zero
    /\ Kd = Zero
    /\ Kp = Rat(2)
    /\ ITerm # Zero
    /\ DTerm # Zero
    /\ ret = Rat(-2)

\* C8: clearI sets ITerm to 0 and changes no other field.
C8_ClearIFrame ==
    [][lastOp' = "clearI" =>
          /\ ITerm' = Zero
          /\ UNCHANGED <<PTerm, DTerm, last_error, output, SetPoint,
                         sample_time, windup_guard, last_time, current_time,
                         Kp, Ki, Kd, flush, flush_pressure>>]_vars

\* clearI called with every term and the output set.
C8_Witness ==
    /\ lastOp = "clearI"
    /\ ITerm = Zero
    /\ PTerm # Zero
    /\ DTerm # Zero
    /\ last_error # Zero
    /\ output # Zero
    /\ SetPoint # Zero

\* C9: over consecutive update calls, each less than a positive sample_time
\* after the one before, no update is effective and PTerm, ITerm, DTerm and
\* output stay as the first call left them, however much time has elapsed
\* in total.
C9_NeverEffective ==
    runGated => ~effective /\ <<PTerm, ITerm, DTerm, output>> = runBase

\* Such a run in which sample_time has elapsed in total, and the error has
\* moved away from the one PTerm was computed from.
C9_Witness ==
    /\ runGated
    /\ sample_time > 0
    /\ runElapsed >= sample_time
    /\ PTerm # RMul(Kp, last_error)

\* C10: restart_flow with newI = 0 raises at the division, having
\* overwritten Ki, sample_time, last_time, current_time, windup_guard,
\* flush, flush_pressure and PTerm, and leaving ITerm, DTerm, last_error,
\* output and SetPoint as they were.
C10_FailedRestart ==
    [][lastOp' = "restart_flow" /\ args'[2] = 0 =>
          /\ err'
          /\ Ki' = Zero
          /\ sample_time' = 0
          /\ last_time' = current_time'
          /\ current_time' >= current_time
          /\ windup_guard' = Rat(WINDUP_DEFAULT)
          /\ flush' = FALSE
          /\ flush_pressure' = Zero
          /\ PTerm' = Zero
          /\ UNCHANGED <<ITerm, DTerm, last_error, output, SetPoint>>]_vars

\* A failed restart_flow that left an integral, a derivative, an error, an
\* output and a target behind.
C10_Witness ==
    /\ lastOp = "restart_flow"
    /\ err
    /\ Ki = Zero
    /\ PTerm = Zero
    /\ ITerm # Zero
    /\ DTerm # Zero
    /\ last_error # Zero
    /\ output # Zero
    /\ SetPoint # Zero

=============================================================================
